---- MODULE Spec2Model ----
(***************************************************************************)
(* SpeedTake: the extraction controller (src/controller.py), its Qt front   *)
(* end (src/ui/qt_app.py) and the Tk front end with its own batch loop and  *)
(* download ledger (src/audio.py).                                          *)
(*                                                                          *)
(* A path string is a record [segs, stem, ext]: the directory segments as   *)
(* typed (the text between the slashes, so "d//x.mp4" has the segments      *)
(* <<"d", "">>), the stem and the extension of the last component.          *)
(* pathlib's Path(...) drops the empty and the "." segments.                *)
(***************************************************************************)
EXTENDS Integers, Sequences, FiniteSets, TLC

\* ------------------------------------------------------------------ bounds
\* the longest queue followed
MaxQueue == 2

\* the longest list of paths handed to one add_files call
MaxFiles == 2

\* the calls of _cleanup_downloaded_file followed for one download
MaxCleanupCalls == 2

\* the UI events of audio.py followed while one batch runs
MaxRunEdits == 1

\* ------------------------------------------------------------------ values
None == "None"

NoPath == [segs |-> <<>>, stem |-> "", ext |-> ""]

NoFolder == <<>>

NoRecord == [type |-> "none"]

\* str paths a caller can hand to add_files: d/x.mp4, d//x.mp4, e/x.mkv
PathStrs ==
    { [segs |-> <<"d">>,     stem |-> "x", ext |-> "mp4"],
      [segs |-> <<"d", "">>, stem |-> "x", ext |-> "mp4"],
      [segs |-> <<"e">>,     stem |-> "x", ext |-> "mkv"] }

\* texts of the output-folder field: empty, "out"
FolderTexts == { <<>>, <<"out">> }

AUDIO_CODECS ==
    [mp3 |-> "libmp3lame", wav |-> "pcm_s16le", flac |-> "flac", aac |-> "aac"]

Formats == DOMAIN AUDIO_CODECS

\* what a caller hands to set_output_format
FormatInputs == {"mp3", "flac", "ogg"}

\* ------------------------------------------------------------------ pathlib
IsRealSeg(s) == s # "" /\ s # "."

Path(p) == [segs |-> SelectSeq(p.segs, IsRealSeg), stem |-> p.stem, ext |-> p.ext]

DirPath(segs) == SelectSeq(segs, IsRealSeg)

Parent(p) == Path(p).segs

JoinStemExt(dir, stem, fmt) == [segs |-> dir, stem |-> stem, ext |-> fmt]

SeqSet(s) == { s[i] : i \in 1..Len(s) }

\* ------------------------------------------------------------------ state
VARIABLES
    selected_files,   \* controller.selected_files: list of str paths
    output_format,    \* controller.output_format
    output_folder,    \* controller.output_folder (NoFolder for None)
    ffmpeg_path,      \* controller.ffmpeg_path
    worker,           \* window.worker: "none" or "running"
    start_button,     \* start_button enabled
    add_buttons,      \* add_files_btn, add_folder_btn, clear_list_btn enabled
    dialog,           \* title of the message box the last handler showed
    notice,           \* the completion notice the last handler showed, if it showed one
    pc,               \* position of extract_audio_files
    index,            \* loop index (1-based)
    total_files,      \* local total_files
    success_count,    \* local success_count
    last_output_path, \* local last_output_path
    errors,           \* local errors
    output_dir,       \* local output_dir
    output_file,      \* local output_file of the current item
    events,           \* notifications emitted by the callbacks, in order
    outcomes,         \* per attempted item: what happened to it
    result,           \* what extract_audio_files gave its caller
    returned,         \* return value of the last add_files call
    last_call,        \* the selection call the last step made, with the queue before it
    app,              \* which program runs: "qt" (qt_app.py) or "tk" (audio.py)
    download_cache,   \* SpeedTakeGUI._download_cache: path -> info
    fs_files,         \* downloaded and extracted files that exist
    fs_dirs,          \* scratch and output directories that exist
    tk_input_path,    \* audio.py local input_path of the current item
    temp_download_path, \* audio.py local temp_download_path
    record,           \* audio.py loop variable record
    run_edits,        \* UI events handled while the audio.py batch runs
    released          \* per downloaded path, the cleanup calls since it was cached

ctlVars == << selected_files, output_format, output_folder, ffmpeg_path >>

uiVars == << worker, start_button, add_buttons, dialog, notice >>

runVars == << pc, index, total_files, success_count, last_output_path, errors,
              output_dir, output_file, events, outcomes, result >>

\* state of audio.py that qt_app.py and controller.py do not have
tkVars == << download_cache, fs_files, fs_dirs, tk_input_path, temp_download_path,
             record, run_edits, released >>

\* state of qt_app.py and controller.py that audio.py does not have
qtVars == << add_buttons, errors, output_file, returned >>

vars == << ctlVars, uiVars, runVars, returned, last_call, app, tkVars >>

NoResult == [kind |-> "none"]

NoCall == [op |-> "none"]

NoNotice == [title |-> "none"]

\* a handler shows the message box titled title, or none; whatever completion
\* notice was on screen is gone
Shows(title) ==
    /\ dialog' = title
    /\ notice' = NoNotice

\* what a probe finds: the co-located ffmpeg.exe is absent, answers
\* -version, or fails it; the search-path binary answers or does not
ColocatedStates == {"absent", "works", "broken"}

SearchPathStates == {"works", "missing"}

\* SpeedTakeGUI.check_ffmpeg: exe_dir/ffmpeg.exe if it exists, else ffmpeg; the one
\* candidate answers -version or ffmpeg_path is None
TkProbeFfmpeg(colocated, onpath) ==
    IF colocated # "absent"
    THEN (IF colocated = "works" THEN "exe_dir/ffmpeg.exe" ELSE None)
    ELSE (IF onpath = "works" THEN "ffmpeg" ELSE None)

\* SpeedTakeController.__init__ and SpeedTakeQtMainWindow.__init__, or
\* SpeedTakeGUI.__init__, which ends with check_ffmpeg()
Init ==
    /\ app \in {"qt", "tk"}
    /\ selected_files = <<>>
    /\ output_format = "mp3"
    /\ output_folder = NoFolder
    /\ ffmpeg_path \in IF app = "qt" THEN {None}
                       ELSE { TkProbeFfmpeg(c, p) :
                                c \in ColocatedStates, p \in SearchPathStates }
    /\ download_cache = << >>
    /\ fs_files = {}
    /\ fs_dirs = {}
    /\ tk_input_path = NoPath
    /\ temp_download_path = NoPath
    /\ record = NoRecord
    /\ run_edits = 0
    /\ released = << >>
    /\ worker = "none"
    /\ start_button = TRUE
    /\ add_buttons = TRUE
    /\ dialog = "none"
    /\ notice = NoNotice
    /\ pc = "idle"
    /\ index = 0
    /\ total_files = 0
    /\ success_count = 0
    /\ last_output_path = NoPath
    /\ errors = <<>>
    /\ output_dir = NoFolder
    /\ output_file = NoPath
    /\ events = <<>>
    /\ outcomes = <<>>
    /\ result = NoResult
    /\ returned = <<>>
    /\ last_call = NoCall

\* a step of the controller, driven by qt_app.py or by a direct caller
QtFrame == app = "qt" /\ UNCHANGED << app, tkVars >>

\* a step of the Tk application of audio.py
TkFrame == app = "tk" /\ UNCHANGED << app, qtVars >>

\* ------------------------------------------------------------------ selection
\* `file_path not in self.selected_files`: equality of the str values
InSelection(file_path, sel) == file_path \in SeqSet(sel)

RECURSIVE AddFilesLoop(_, _, _)
AddFilesLoop(files, sel, new_files) ==
    IF files = <<>>
    THEN [selected |-> sel, new_files |-> new_files]
    ELSE LET file_path == Head(files) IN
         IF ~InSelection(file_path, sel)
         THEN AddFilesLoop(Tail(files), Append(sel, file_path),
                           Append(new_files, file_path))
         ELSE AddFilesLoop(Tail(files), sel, new_files)

\* lists of at most MaxFiles paths, repetitions included
FileLists(paths) ==
    UNION { [1..n -> paths] : n \in 0..MaxFiles }

\* a UI handler runs when the UI thread is not inside a synchronous call
UiFree == worker = "running" \/ pc = "idle"

\* SpeedTakeQtMainWindow.add_files -> SpeedTakeController.add_files
add_files(files) ==
    /\ QtFrame
    /\ UiFree
    /\ add_buttons
    /\ LET r == AddFilesLoop(files, selected_files, <<>>) IN
       /\ Len(r.selected) <= MaxQueue
       /\ selected_files' = r.selected
       /\ returned' = r.new_files
    /\ last_call' = NoCall
    /\ Shows("none")
    /\ UNCHANGED << output_format, output_folder, ffmpeg_path, worker,
                    start_button, add_buttons, runVars >>

\* a clear that leaves the list as it is
ClearKeeps(sel) == sel

\* self.selected_files.clear()
ClearList(sel) == <<>>

\* the record of one clear_files call: the queue it found, and whether the
\* call before it was add_folder(folder) on an empty queue
ClearCall(call, sel) ==
    IF call.op = "add_folder" /\ call.before = <<>> /\ call.raised = "none"
    THEN [op |-> "clear_files", redo |-> TRUE, folder |-> call.folder, queue |-> sel]
    ELSE [op |-> "clear_files", redo |-> FALSE, folder |-> <<>>, queue |-> sel]

\* SpeedTakeQtMainWindow.clear_files -> SpeedTakeController.clear_files
clear_files ==
    /\ QtFrame
    /\ UiFree
    /\ add_buttons
    /\ selected_files' = ClearList(selected_files)
    /\ Shows("none")
    /\ returned' = <<>>
    /\ last_call' = ClearCall(last_call, selected_files)
    /\ UNCHANGED << output_format, output_folder, ffmpeg_path, worker,
                    start_button, add_buttons, runVars >>

\* ------------------------------------------------------------------ folders
VIDEO_EXTENSIONS == {"mp4", "avi", "mkv", "mov", "wmv", "flv", "webm", "m4v"}

\* str.lower() on the suffixes that occur
Lower(suffix) ==
    CASE suffix = "MP4" -> "mp4"
      [] suffix = "MKV" -> "mkv"
      [] OTHER -> suffix

\* the folders that exist: d and m
FsDirs == { <<"d">>, <<"m">> }

\* what lies under each folder, in the order the directory scan gives it:
\* d holds x.mp4 and n.txt; m holds a.MP4, a directory named clips.mkv and r.txt
FsTree(dir) ==
    CASE dir = <<"d">> ->
           << [path |-> [segs |-> <<"d">>, stem |-> "x", ext |-> "mp4"], is_file |-> TRUE],
              [path |-> [segs |-> <<"d">>, stem |-> "n", ext |-> "txt"], is_file |-> TRUE] >>
      [] dir = <<"m">> ->
           << [path |-> [segs |-> <<"m">>, stem |-> "a", ext |-> "MP4"], is_file |-> TRUE],
              [path |-> [segs |-> <<"m">>, stem |-> "clips", ext |-> "mkv"], is_file |-> FALSE],
              [path |-> [segs |-> <<"m">>, stem |-> "r", ext |-> "txt"], is_file |-> TRUE] >>
      [] OTHER -> << >>

\* what the folder dialog returns or a caller hands over: "" (cancelled),
\* "d", "m", and "gone", which does not exist
Folders == { <<>>, <<"d">>, <<"m">>, <<"gone">> }

\* a file system on which every folder is there
EveryFolderExists(folder) == TRUE

\* folder_path.exists()
FolderExists(folder) == DirPath(folder) \in FsDirs

\* Path(folder).glob("**/*"): every entry below the folder, directories included
Glob(folder) == FsTree(DirPath(folder))

\* a scan that keeps every entry, whatever its suffix
AnySuffix(entry) == TRUE

\* path.suffix.lower() in VIDEO_EXTENSIONS
IsVideoSuffix(entry) == Lower(entry.path.ext) \in VIDEO_EXTENSIONS

\* [str(path) for path in folder_path.glob("**/*") if ...]
VideoFiles(folder) ==
    LET found == SelectSeq(Glob(folder), IsVideoSuffix)
    IN [i \in 1..Len(found) |-> found[i].path]

\* the record of one add_folder call: the queue before it, what it reported
FolderCall(folder, before, total, raised, again) ==
    [op |-> "add_folder", folder |-> folder, before |-> before,
     total |-> total, raised |-> raised, again |-> again]

\* the queue that the call before a clear_files left, if that call was
\* add_folder(folder) on an empty queue
AgainOf(call, folder) ==
    IF call.op = "clear_files" /\ call.redo /\ call.folder = folder
    THEN [is |-> TRUE, queue |-> call.queue]
    ELSE [is |-> FALSE, queue |-> <<>>]

\* SpeedTakeQtMainWindow.add_folder -> SpeedTakeController.add_folder
add_folder(folder) ==
    /\ QtFrame
    /\ UiFree
    /\ add_buttons
    /\ IF folder = <<>>
       THEN /\ Shows("none")
            /\ returned' = <<>>
            /\ last_call' = FolderCall(folder, selected_files, 0, "none",
                                       AgainOf(last_call, folder))
            /\ UNCHANGED selected_files
       ELSE IF ~FolderExists(folder)
       THEN /\ Shows("Folder Not Found")
            /\ returned' = <<>>
            /\ last_call' = FolderCall(folder, selected_files, 0, "FileNotFoundError",
                                       AgainOf(last_call, folder))
            /\ UNCHANGED selected_files
       ELSE LET video_files == VideoFiles(folder)
                r == AddFilesLoop(video_files, selected_files, <<>>)
                total_found == Len(video_files)
            IN /\ Len(r.selected) <= MaxQueue
               /\ selected_files' = r.selected
               /\ returned' = r.new_files
               /\ Shows(IF total_found = 0 THEN "No Videos Found"
                        ELSE IF r.new_files = <<>> THEN "No New Files"
                        ELSE "none")
               /\ last_call' = FolderCall(folder, selected_files, total_found, "none",
                                          AgainOf(last_call, folder))
    /\ UNCHANGED << output_format, output_folder, ffmpeg_path, worker,
                    start_button, add_buttons, runVars >>

\* ------------------------------------------------------------------ configuration
\* on_output_folder_changed -> set_output_folder(text.strip() or None)
set_output_folder(folder) ==
    /\ QtFrame
    /\ UiFree
    /\ output_folder' = folder
    /\ Shows("none")
    /\ returned' = <<>>
    /\ last_call' = NoCall
    /\ UNCHANGED << selected_files, output_format, ffmpeg_path, worker,
                    start_button, add_buttons, runVars >>

\* a controller that stores whatever format it is handed
EveryFormatSupported(fmt) == TRUE

\* `fmt not in self.AUDIO_CODECS` raises ValueError
SupportedFormat(fmt) == fmt \in DOMAIN AUDIO_CODECS

\* on_output_format_changed -> set_output_format(fmt); the radio buttons give
\* supported values only, any other value comes from a direct call between runs
set_output_format(fmt) ==
    /\ QtFrame
    /\ UiFree
    /\ fmt \in DOMAIN AUDIO_CODECS \/ pc = "idle"
    /\ IF ~SupportedFormat(fmt)
       THEN /\ Shows("Unsupported Format")
            /\ UNCHANGED output_format
       ELSE /\ output_format' = fmt
            /\ Shows("none")
    /\ returned' = <<>>
    /\ last_call' = NoCall
    /\ UNCHANGED << selected_files, output_folder, ffmpeg_path, worker,
                    start_button, add_buttons, runVars >>

\* ------------------------------------------------------------------ ffmpeg
\* check_ffmpeg: the first candidate that answers -version, else None
ProbeFfmpeg(colocated, onpath) ==
    LET search_candidates ==
            (IF colocated # "absent" THEN <<"exe_dir/ffmpeg.exe">> ELSE <<>>)
            \o <<"ffmpeg">>
        Answers(c) == IF c = "ffmpeg" THEN onpath = "works"
                      ELSE colocated = "works"
        working == SelectSeq(search_candidates, Answers)
    IN IF working # <<>> THEN Head(working) ELSE None

\* ------------------------------------------------------------------ extraction
\* a result whose total counts the failed items only
ExtractionResultOfErrors(sc, tf, lop, errs) ==
    [kind |-> "result", success_count |-> sc, total_files |-> Len(errs),
     last_output_path |-> lop, errors |-> errs]

ExtractionResult(sc, tf, lop, errs) ==
    [kind |-> "result", success_count |-> sc, total_files |-> tf,
     last_output_path |-> lop, errors |-> errs]

Raised(exc) == [kind |-> "raised", exc |-> exc]

\* f"{input_file}: {message}"
ErrorEntry(input_file, message) == [file |-> input_file, message |-> message]

\* ExtractionWorker.run.status_callback: status_updated, then progress_updated
StatusCallback(i, total, name) ==
    << [kind |-> "status", index |-> i, total |-> total, name |-> name],
       [kind |-> "progress", index |-> i, total |-> total] >>

\* the for statement over self.selected_files: the next item, or the return
LoopTo(i) == IF i <= Len(selected_files) THEN "prepare" ELSE "return"

\* a start control that takes a click whatever its state
StartAlways == TRUE

\* the start control takes a click: start_button.setEnabled(False) and
\* extract_button.config(state='disabled') switch it off for the time of a batch
StartEnabled == start_button

\* a test of the queue that never finds it empty
NeverEmpty(sel) == FALSE

\* `if not self.controller.selected_files`
NoFilesSelected(sel) == sel = <<>>

\* a test of the ffmpeg path that always finds one
AlwaysConfigured(path) == FALSE

\* a test of the ffmpeg path that never finds one
NeverConfigured(path) == TRUE

\* `if not self.ffmpeg_path`
NotConfigured(path) == path = None

\* the record of one start_extraction call that found files queued: whether
\* it ran check_ffmpeg, what the probe met, and the path cached before it
StartCall(probed, colocated, onpath, before) ==
    [op |-> "start_extraction", probed |-> probed,
     env |-> IF probed THEN << colocated, onpath >> ELSE << >>,
     before |-> before]

\* SpeedTakeQtMainWindow.start_extraction; its set_output_folder call stores the
\* text of the folder field, which on_output_folder_changed has stored already
start_extraction(colocated, onpath) ==
    /\ QtFrame
    /\ UiFree
    /\ StartEnabled
    /\ IF NoFilesSelected(selected_files)
       THEN /\ Shows("No Files Selected")
            /\ UNCHANGED << ctlVars, worker, start_button, add_buttons,
                            runVars >>
       ELSE LET probed == IF NotConfigured(ffmpeg_path)
                          THEN ProbeFfmpeg(colocated, onpath)
                          ELSE ffmpeg_path
            IN /\ ffmpeg_path' = probed
               /\ IF probed = None
                  THEN /\ Shows("FFmpeg Not Found")
                       /\ UNCHANGED << worker, start_button, add_buttons,
                                       runVars >>
                  ELSE /\ Shows("none")
                       /\ start_button' = FALSE
                       /\ add_buttons' = FALSE
                       /\ worker' = "running"
                       /\ pc' = "start"
                       /\ UNCHANGED << index, total_files, success_count,
                                       last_output_path, errors, output_dir,
                                       output_file, events, outcomes, result >>
               /\ UNCHANGED << selected_files, output_format, output_folder >>
    /\ returned' = <<>>
    /\ last_call' = IF NoFilesSelected(selected_files) THEN NoCall
                    ELSE StartCall(NotConfigured(ffmpeg_path), colocated, onpath,
                                   ffmpeg_path)

\* a caller other than the window invokes controller.extract_audio_files
call_extract_audio_files ==
    /\ QtFrame
    /\ pc = "idle"
    /\ worker = "none"
    /\ pc' = "start"
    /\ Shows("none")
    /\ returned' = <<>>
    /\ last_call' = NoCall
    /\ UNCHANGED << ctlVars, worker, start_button, add_buttons, index,
                    total_files, success_count, last_output_path, errors,
                    output_dir, output_file, events, outcomes, result >>

\* extract_audio_files, up to the loop
extract_enter ==
    /\ QtFrame
    /\ pc = "start"
    /\ total_files' = Len(selected_files)
    /\ success_count' = 0
    /\ last_output_path' = NoPath
    /\ errors' = <<>>
    /\ IF Len(selected_files) = 0
       THEN /\ result' = ExtractionResult(0, 0, NoPath, <<>>)
            /\ pc' = "returned"
            /\ UNCHANGED << index, output_dir >>
       ELSE IF NotConfigured(ffmpeg_path)
       THEN /\ result' = Raised("RuntimeError")
            /\ pc' = "raised"
            /\ UNCHANGED << index, output_dir >>
       ELSE /\ output_dir' = DirPath(output_folder)
            /\ index' = 1
            /\ pc' = LoopTo(1)
            /\ UNCHANGED result
    /\ last_call' = NoCall
    /\ UNCHANGED << ctlVars, uiVars, output_file, events, outcomes, returned >>

\* the except clause and the finally clause of one item: the error is recorded,
\* error_callback is called and may itself raise, which leaves the function
\* (progress_callback is None in ExtractionWorker.run)
ExceptClause(errs, input_file, exc, cb_raises, what) ==
    /\ errors' = Append(errs, ErrorEntry(input_file, exc))
    /\ outcomes' = Append(outcomes, what)
    /\ IF cb_raises
       THEN /\ pc' = "raised"
            /\ result' = Raised("error_callback")
            /\ UNCHANGED << index, events >>
       ELSE /\ pc' = LoopTo(index + 1)
            /\ index' = index + 1
            /\ events' = Append(events, [kind |-> "error", index |-> index])
            /\ UNCHANGED result

\* what happened to item i; cmd is the ffmpeg command that was run, if any
Outcome(i, kind, input_path, cmd) ==
    [index |-> i, kind |-> kind, input |-> input_path, cmd |-> cmd]

\* a command that leaves the choice of the codec to ffmpeg
FfmpegCmdNoCodec(input_path, fmt, out) ==
    << ffmpeg_path, "-i", input_path, "-vn", "-y", out >>

\* [ffmpeg_path, "-i", input, "-vn", "-y", "-acodec", codec, output]
FfmpegCmd(input_path, fmt, out) ==
    << ffmpeg_path, "-i", input_path, "-vn", "-y" >>
    \o (IF fmt \in DOMAIN AUDIO_CODECS
        THEN << "-acodec", AUDIO_CODECS[fmt] >> ELSE << >>)
    \o << out >>

CmdOutput(cmd) == cmd[Len(cmd)]

\* one item, from Path(input_file) to status_callback; mkdir or the status
\* callback may raise, which the except clause catches
extract_prepare(mkdir_ok, st_raises, cb_raises) ==
    /\ QtFrame
    /\ pc = "prepare"
    /\ LET input_file == selected_files[index]
           input_path == Path(input_file)
           destination_dir == IF output_dir # NoFolder THEN output_dir
                              ELSE Parent(input_path)
       IN IF mkdir_ok /\ ~st_raises
          THEN /\ ~cb_raises
               /\ output_file' = JoinStemExt(destination_dir, input_path.stem,
                                             output_format)
               /\ events' = events \o StatusCallback(index, total_files,
                                        << input_path.stem, input_path.ext >>)
               /\ pc' = "transcode"
               /\ UNCHANGED << index, errors, outcomes, result >>
          ELSE IF ~mkdir_ok
          THEN /\ ~st_raises
               /\ ExceptClause(errors, input_file, "mkdir", cb_raises,
                     Outcome(index, "mkdir_failed", input_path, << >>))
               /\ UNCHANGED output_file
          ELSE /\ ExceptClause(errors, input_file, "status_callback", cb_raises,
                     Outcome(index, "status_failed", input_path, << >>))
               /\ output_file' = JoinStemExt(destination_dir, input_path.stem,
                                             output_format)
    /\ UNCHANGED << ctlVars, uiVars, total_files, success_count,
                    last_output_path, output_dir, returned, last_call >>

\* subprocess.run: ffmpeg exits 0, exits nonzero, or cannot be run at all
RunOutcomes == {"exit0", "exit1", "oserror"}

\* the input file is gone when ffmpeg is run on it: the controller makes no
\* exists() test, ffmpeg cannot open its input and exits nonzero
VanishedOutcomes == {"no_input"}

\* a test of the return code that takes every exit for a success
ReturncodeOkAlways(run) == run # "oserror"

\* result.returncode == 0
ReturncodeOk(run) == run = "exit0"

\* one item, from the ffmpeg command to the finally clause
extract_transcode(run, cb1_raises, cb2_raises) ==
    /\ QtFrame
    /\ pc = "transcode"
    /\ LET input_file == selected_files[index]
           input_path == Path(input_file)
           cmd == FfmpegCmd(input_path, output_format, output_file)
           what == Outcome(index, run, input_path, cmd)
       IN IF ReturncodeOk(run)
          THEN /\ ~cb1_raises /\ ~cb2_raises
               /\ success_count' = success_count + 1
               /\ last_output_path' = output_file
               /\ outcomes' = Append(outcomes, what)
               /\ pc' = LoopTo(index + 1)
               /\ index' = index + 1
               /\ UNCHANGED << errors, events, result >>
          ELSE IF run # "oserror"
          THEN /\ UNCHANGED << success_count, last_output_path >>
               /\ IF cb1_raises
                  THEN ExceptClause(
                           Append(errors, ErrorEntry(input_file, "ffmpeg")),
                           input_file, "error_callback", cb2_raises, what)
                  ELSE /\ ~cb2_raises
                       /\ errors' = Append(errors,
                                           ErrorEntry(input_file, "ffmpeg"))
                       /\ outcomes' = Append(outcomes, what)
                       /\ events' = Append(events,
                                      [kind |-> "error", index |-> index])
                       /\ pc' = LoopTo(index + 1)
                       /\ index' = index + 1
                       /\ UNCHANGED result
          ELSE /\ ~cb1_raises
               /\ UNCHANGED << success_count, last_output_path >>
               /\ ExceptClause(errors, input_file, "oserror", cb2_raises, what)
    /\ UNCHANGED << ctlVars, uiVars, total_files, output_dir, output_file,
                    returned, last_call >>

\* return ExtractionResult(...); in the worker, completed.emit(result) follows
\* a batch that empties the queue when it is done
QueueCleared(files) == << >>

\* extract_audio_files enumerates self.selected_files and never assigns to it or
\* calls a method that changes it: the queue after the loop is the queue
QueueOnReturn(files) == files

extract_return ==
    /\ QtFrame
    /\ pc = "return"
    /\ selected_files' = QueueOnReturn(selected_files)
    /\ result' = ExtractionResult(success_count, total_files, last_output_path,
                                  errors)
    /\ events' = IF worker = "running"
                 THEN Append(events, [kind |-> "completed"])
                 ELSE events
    /\ pc' = "returned"
    /\ UNCHANGED << output_format, output_folder, ffmpeg_path, uiVars, index,
                    total_files, success_count, last_output_path, errors,
                    output_dir, output_file, outcomes, returned, last_call >>

\* the locals of a finished call are gone
RunOver ==
    /\ pc' = "idle"
    /\ index' = 0
    /\ total_files' = 0
    /\ success_count' = 0
    /\ last_output_path' = NoPath
    /\ errors' = <<>>
    /\ output_dir' = NoFolder
    /\ output_file' = NoPath
    /\ events' = <<>>
    /\ outcomes' = <<>>
    /\ result' = NoResult

\* show_completion_dialog(title, message, output_folder, output_file): an
\* information box with Close, "Play File" if output_file is given and
\* "Open Folder" if output_folder is
CompletionDialog(title, sc, tf, folder_of_output, file_to_play) ==
    [title |-> title, icon |-> "information",
     success_count |-> sc, total_files |-> tf,
     play_file |-> file_to_play, open_folder |-> folder_of_output]

\* the error box "Extraction Failed"
FailureBox(sc, tf) ==
    [title |-> "Extraction Failed", icon |-> "critical",
     success_count |-> sc, total_files |-> tf,
     play_file |-> NoPath, open_folder |-> NoFolder]

\* a completion that offers the output file whatever the size of the batch
OfferAlways(tf, lop) == lop

\* `last_output_path if total_files == 1 else None`
OfferedFile(tf, lop) == IF tf = 1 THEN lop ELSE NoPath

\* Path(last_output_path).parent if last_output_path else None
OutputFolderOf(lop) == IF lop # NoPath THEN Path(lop).segs ELSE NoFolder

\* the branches of SpeedTakeQtMainWindow.on_extraction_complete
QtCompletion(res) ==
    LET folder_of_output == OutputFolderOf(res.last_output_path) IN
    IF res.total_files = 0 THEN NoNotice
    ELSE IF res.success_count = res.total_files
    THEN CompletionDialog("Extraction Complete", res.success_count, res.total_files,
                          folder_of_output,
                          OfferedFile(res.total_files, res.last_output_path))
    ELSE IF res.success_count > 0
    THEN CompletionDialog("Partial Success", res.success_count, res.total_files,
                          folder_of_output, NoPath)
    ELSE FailureBox(res.success_count, res.total_files)

\* the branches of SpeedTakeGUI.extraction_complete
TkCompletion(sc, tf, lop) ==
    LET folder_of_output == OutputFolderOf(lop) IN
    IF sc = tf /\ sc > 0
    THEN CompletionDialog("Extraction Complete", sc, tf, folder_of_output,
                          OfferedFile(tf, lop))
    ELSE IF sc > 0
    THEN CompletionDialog("Partial Success", sc, tf, folder_of_output, NoPath)
    ELSE FailureBox(sc, tf)

\* ExtractionWorker.completed -> SpeedTakeQtMainWindow.on_extraction_complete
on_extraction_complete ==
    /\ QtFrame
    /\ worker = "running"
    /\ pc = "returned"
    /\ pc' = "delivered"
    /\ notice' = QtCompletion(result)
    /\ dialog' = notice'.title
    /\ UNCHANGED << ctlVars, worker, start_button, add_buttons, index,
                    total_files, success_count, last_output_path, errors,
                    output_dir, output_file, events, outcomes, result,
                    returned, last_call >>

\* a finished signal that is emitted only after a result was delivered
FinishedAfterResult == {"delivered"}

\* QThread.finished is emitted when run() has ended: after completed was
\* delivered, or after run() was left by an exception
FinishedAfter == {"delivered", "raised"}

\* QThread.finished -> SpeedTakeQtMainWindow.on_worker_finished
on_worker_finished ==
    /\ QtFrame
    /\ worker = "running"
    /\ pc \in FinishedAfter
    /\ worker' = "none"
    /\ start_button' = TRUE
    /\ add_buttons' = TRUE
    /\ RunOver
    /\ UNCHANGED << ctlVars, dialog, notice, returned, last_call >>

\* the direct caller has its result or its exception
caller_resumes ==
    /\ QtFrame
    /\ worker = "none"
    /\ pc \in {"returned", "raised"}
    /\ RunOver
    /\ UNCHANGED << ctlVars, uiVars, returned, last_call >>

\* ------------------------------------------------------------------ audio.py: records
\* a URL text: the scheme, the user information before "@" and the host as
\* their dot-separated labels, and what follows the authority
Url(scheme, userinfo, host, rest) ==
    [scheme |-> scheme, userinfo |-> userinfo, host |-> host, rest |-> rest]

\* https://youtu.be/abc123 and https://www.youtube.com/watch?v=abc123
Urls ==
    { Url("https", <<>>, <<"youtu", "be">>, "/abc123"),
      Url("https", <<>>, <<"www", "youtube", "com">>, "/watch?v=abc123") }

\* the texts a user can type: the two above, ftp://example.com/x,
\* https://example.org/x, ftp://youtu.be/abc123, https:///x and
\* https://youtube.com@example.org/x
UrlInputs ==
    Urls \cup
    { Url("ftp", <<>>, <<"example", "com">>, "/x"),
      Url("https", <<>>, <<"example", "org">>, "/x"),
      Url("ftp", <<>>, <<"youtu", "be">>, "/abc123"),
      Url("https", <<>>, <<>>, "/x"),
      Url("https", <<"youtube", "com">>, <<"example", "org">>, "/x") }

\* urlparse(url): netloc is everything between "//" and the next "/", the
\* user information and the "@" included; hostname is the part after the "@"
urlparse(url) ==
    [scheme |-> url.scheme,
     netloc |-> IF url.userinfo = <<>> THEN url.host
                ELSE url.userinfo \o <<"@">> \o url.host,
     hostname |-> url.host]

\* `marker in domain` for a marker made of whole labels
Contains(domain, marker) ==
    \E i \in 1..(Len(domain) - Len(marker) + 1) :
        SubSeq(domain, i, i + Len(marker) - 1) = marker

\* SpeedTakeGUI._is_valid_youtube_url
is_valid_youtube_url(url) ==
    LET parsed == urlparse(url) IN
    IF parsed.scheme \notin {"http", "https"} \/ parsed.netloc = <<>>
    THEN FALSE
    ELSE LET domain == [i \in 1..Len(parsed.netloc) |-> Lower(parsed.netloc[i])]
         IN \/ Contains(domain, <<"youtube", "com">>)
            \/ Contains(domain, <<"youtu", "be">>)

\* the record of one add_youtube_link call
LinkCall(url, before) == [op |-> "add_youtube_link", url |-> url, before |-> before]

FileRecord(file) == [type |-> "file", path |-> Path(file)]

UrlRecord(url) == [type |-> "url", value |-> url]

\* a queue in which no record is ever found
NoRecordExists(rec, sel) == FALSE

\* SpeedTakeGUI._record_exists
RecordExists(rec, sel) ==
    \E k \in 1..Len(sel) :
        /\ sel[k].type = rec.type
        /\ IF rec.type = "file"
           THEN sel[k].path = rec.path
           ELSE sel[k].value = rec.value

RECURSIVE TkAddLoop(_, _)
TkAddLoop(files, sel) ==
    IF files = <<>> THEN sel
    ELSE LET rec == FileRecord(Head(files)) IN
         TkAddLoop(Tail(files),
                   IF ~RecordExists(rec, sel) THEN Append(sel, rec)
                   ELSE sel)

\* the add and clear buttons and the output options of audio.py stay enabled
\* while a batch runs; the UI events handled during one run are counted
TkUiEvent ==
    /\ pc = "idle" \/ run_edits < MaxRunEdits
    /\ run_edits' = IF pc = "idle" THEN run_edits ELSE run_edits + 1
    /\ UNCHANGED << download_cache, fs_files, fs_dirs, tk_input_path,
                    temp_download_path, record, released >>

\* SpeedTakeGUI.add_files
tk_add_files(files) ==
    /\ TkFrame
    /\ LET sel == TkAddLoop(files, selected_files) IN
       /\ Len(sel) <= MaxQueue
       /\ selected_files' = sel
    /\ Shows("none")
    /\ TkUiEvent
    /\ last_call' = NoCall
    /\ UNCHANGED << output_format, output_folder, ffmpeg_path, worker,
                    start_button, runVars >>

\* SpeedTakeGUI.add_folder: no exists() test, the scan of a missing folder
\* yields nothing
tk_add_folder(folder) ==
    /\ TkFrame
    /\ IF folder = <<>>
       THEN /\ Shows("none")
            /\ UNCHANGED selected_files
       ELSE LET video_files == VideoFiles(folder) IN
            IF video_files = <<>>
            THEN /\ Shows("No Videos Found")
                 /\ UNCHANGED selected_files
            ELSE LET sel == TkAddLoop(video_files, selected_files) IN
                 /\ Len(sel) <= MaxQueue
                 /\ selected_files' = sel
                 /\ Shows("none")
    /\ TkUiEvent
    /\ last_call' = FolderCall(folder, selected_files, Len(VideoFiles(folder)),
                               "none", AgainOf(last_call, folder))
    /\ UNCHANGED << output_format, output_folder, ffmpeg_path, worker,
                    start_button, runVars >>

\* SpeedTakeGUI.add_youtube_link, for a text that is not empty
tk_add_youtube_link(url) ==
    /\ TkFrame
    /\ IF ~is_valid_youtube_url(url)
       THEN /\ Shows("Invalid URL")
            /\ UNCHANGED selected_files
       ELSE LET rec == UrlRecord(url) IN
            IF ~RecordExists(rec, selected_files)
            THEN /\ Len(selected_files) < MaxQueue
                 /\ selected_files' = Append(selected_files, rec)
                 /\ Shows("none")
            ELSE /\ Shows("Duplicate Link")
                 /\ UNCHANGED selected_files
    /\ TkUiEvent
    /\ last_call' = LinkCall(url, selected_files)
    /\ UNCHANGED << output_format, output_folder, ffmpeg_path, worker,
                    start_button, runVars >>

\* SpeedTakeGUI.clear_files
tk_clear_files ==
    /\ TkFrame
    /\ selected_files' = <<>>
    /\ Shows("none")
    /\ TkUiEvent
    /\ last_call' = NoCall
    /\ UNCHANGED << output_format, output_folder, ffmpeg_path, worker,
                    start_button, runVars >>

\* browse_output_folder, or typing into the entry bound to output_folder
tk_set_output_folder(folder) ==
    /\ TkFrame
    /\ output_folder' = folder
    /\ Shows("none")
    /\ TkUiEvent
    /\ last_call' = NoCall
    /\ UNCHANGED << selected_files, output_format, ffmpeg_path, worker,
                    start_button, runVars >>

\* a format radio button bound to output_format
tk_set_output_format(fmt) ==
    /\ TkFrame
    /\ output_format' = fmt
    /\ Shows("none")
    /\ TkUiEvent
    /\ last_call' = NoCall
    /\ UNCHANGED << selected_files, output_folder, ffmpeg_path, worker,
                    start_button, runVars >>

\* ------------------------------------------------------------------ audio.py: ledger
Cwd == << "cwd" >>

\* tempfile.mkdtemp(prefix="speedtake_yt_"): a directory that does not exist yet
ScratchNames == { << "tmp", ToString(k) >> : k \in 1..(MaxQueue + 1) }

FreshScratch(dirs) == CHOOSE d \in ScratchNames : d \notin dirs

\* '%(title)s.%(id)s.%(ext)s' in destination_dir: one name per video
DownloadedFile(destination_dir, url, ext) ==
    [segs |-> destination_dir, stem |-> "title.a", ext |-> ext]

DownloadExts == { "webm" }

\* the downloader raises, yt_dlp cannot be imported, returns no information,
\* names a file that is not there, or delivers the file
DownloadOutcomes == { "raises", "no_import", "no_info", "missing", "ok" }

\* shutil.rmtree(dir, ignore_errors=True): the files under dir
RmtreeFiles(files, dir) == { f \in files : f.segs # dir }

\* an rmtree that leaves the directory in place
RmtreeKeeps(dirs, dir) == dirs

\* shutil.rmtree(dir, ignore_errors=True): the directory itself
Rmtree(dirs, dir) == dirs \ {dir}

CacheInfo(temp_dir) == [temp_dir |-> temp_dir, remove_file |-> TRUE]

NoTempDir == << >>

Without(f, k) == [x \in DOMAIN f \ {k} |-> f[x]]

With(f, k, v) == [x \in DOMAIN f \cup {k} |-> IF x = k THEN v ELSE f[x]]

\* a lookup that leaves the entry in the cache
CacheGet(cache, path) ==
    [info |-> IF path \in DOMAIN cache THEN cache[path]
              ELSE CacheInfo(NoTempDir),
     cache |-> cache]

\* self._download_cache.pop(path, None) or {"temp_dir": None, "remove_file": True}
CachePop(cache, path) ==
    [info |-> IF path \in DOMAIN cache THEN cache[path]
              ELSE CacheInfo(NoTempDir),
     cache |-> Without(cache, path)]

\* SpeedTakeGUI._cleanup_downloaded_file, on the ledger and the file system given
Cleanup(cache, files, dirs, path) ==
    LET popped == CachePop(cache, path)
        info == popped.info
        files1 == IF info.remove_file /\ path \in files
                  THEN files \ {path} ELSE files
        temp_dir == info.temp_dir
        rm == temp_dir # NoTempDir /\ temp_dir \in dirs
    IN [cache |-> popped.cache,
        files |-> IF rm THEN RmtreeFiles(files1, temp_dir) ELSE files1,
        dirs  |-> IF rm THEN Rmtree(dirs, temp_dir) ELSE dirs]

\* one more cleanup call on path is counted, and whether it removed anything
CountRelease(rel, path, removed) ==
    LET old == IF path \in DOMAIN rel THEN rel[path]
               ELSE [calls |-> 0, removing |-> 0]
    IN With(rel, path, [calls |-> old.calls + 1,
                        removing |-> old.removing + (IF removed THEN 1 ELSE 0)])

\* a finally clause that releases nothing
FinallySkip(cache, files, dirs, path) ==
    /\ download_cache' = cache
    /\ fs_files' = files
    /\ fs_dirs' = dirs
    /\ UNCHANGED released

\* the finally clause: `if temp_download_path: self._cleanup_downloaded_file(...)`
FinallyCleanup(cache, files, dirs, path) ==
    IF path = NoPath
    THEN /\ download_cache' = cache
         /\ fs_files' = files
         /\ fs_dirs' = dirs
         /\ UNCHANGED released
    ELSE LET c == Cleanup(cache, files, dirs, path) IN
         /\ download_cache' = c.cache
         /\ fs_files' = c.files
         /\ fs_dirs' = c.dirs
         /\ released' = CountRelease(released, path,
                                     c.files # files \/ c.dirs # dirs)

\* SpeedTakeGUI.download_youtube_audio: what it returns or that it raised, and the
\* ledger and file system it leaves
Download(cache, files, dirs, url, out_dir, dl, ext) ==
    LET is_temp == out_dir = NoFolder
        destination_dir == IF is_temp THEN FreshScratch(dirs) ELSE out_dir
        dirs1 == dirs \cup {destination_dir}
        downloaded_file == DownloadedFile(destination_dir, url, ext)
        failed == [raised |-> TRUE, file |-> NoPath, cache |-> cache,
                   files |-> IF is_temp THEN RmtreeFiles(files, destination_dir)
                             ELSE files,
                   dirs |-> IF is_temp THEN Rmtree(dirs1, destination_dir)
                            ELSE dirs1]
    IN CASE dl = "no_import" ->
              [raised |-> TRUE, file |-> NoPath, cache |-> cache,
               files |-> files, dirs |-> dirs]
         [] dl \in {"raises", "no_info", "missing"} -> failed
         [] dl = "ok" ->
              [raised |-> FALSE, file |-> downloaded_file,
               cache |-> With(cache, downloaded_file,
                              CacheInfo(IF is_temp THEN destination_dir
                                        ELSE NoTempDir)),
               files |-> files \cup {downloaded_file}, dirs |-> dirs1]

\* ------------------------------------------------------------------ audio.py: batch
\* SpeedTakeGUI.start_extraction
tk_start_extraction(colocated, onpath) ==
    /\ TkFrame
    /\ StartEnabled
    /\ IF NoFilesSelected(selected_files)
       THEN /\ Shows("No Files Selected")
            /\ UNCHANGED << ctlVars, worker, start_button, runVars >>
       ELSE LET probed == IF NotConfigured(ffmpeg_path)
                          THEN TkProbeFfmpeg(colocated, onpath)
                          ELSE ffmpeg_path
            IN /\ ffmpeg_path' = probed
               /\ IF probed = None
                  THEN /\ Shows("FFmpeg Not Found")
                       /\ UNCHANGED << worker, start_button, runVars >>
                  ELSE /\ Shows("none")
                       /\ start_button' = FALSE
                       /\ worker' = "running"
                       /\ pc' = "start"
                       /\ UNCHANGED << index, total_files, success_count,
                                       last_output_path, errors, output_dir,
                                       output_file, events, outcomes, result >>
               /\ UNCHANGED << selected_files, output_format, output_folder >>
    /\ last_call' = IF NoFilesSelected(selected_files) THEN NoCall
                    ELSE StartCall(NotConfigured(ffmpeg_path), colocated, onpath,
                                   ffmpeg_path)
    /\ UNCHANGED tkVars

\* the Tk variables the worker thread of audio.py reads with .get() in its
\* next step: output_folder before the loop, output_format for the name of
\* the output and again for the codec; its writes to the status label go
\* through root.after and are the Posted notifications
WorkerThreadReads ==
    IF app = "tk" /\ worker = "running"
    THEN CASE pc = "start" -> {"output_folder"}
           [] pc = "transcode" -> {"output_format"}
           [] OTHER -> {}
    ELSE {}

\* the for statement of audio.py binds the next record, if there is one
NextRecord(i) == IF i <= Len(selected_files) THEN selected_files[i] ELSE NoRecord

\* display_name: the file's name, or the link
DisplayName(rec) ==
    IF rec.type = "file" THEN << rec.path.stem, rec.path.ext >> ELSE rec.value

\* SpeedTakeGUI.extract_audio_files, up to the loop
tk_extract_enter ==
    /\ TkFrame
    /\ last_call' = NoCall
    /\ pc = "start"
    /\ success_count' = 0
    /\ total_files' = Len(selected_files)
    /\ last_output_path' = NoPath
    /\ output_dir' = DirPath(output_folder)
    /\ index' = 1
    /\ pc' = LoopTo(1)
    /\ record' = NextRecord(1)
    /\ UNCHANGED << ctlVars, worker, start_button, dialog, notice, errors, output_file,
                    events, outcomes, result, download_cache, fs_files, fs_dirs,
                    tk_input_path, temp_download_path, run_edits, released >>

\* a status_label update handed to the UI thread with root.after(0, ...)
Posted(kind, i, name) == [kind |-> kind, index |-> i, name |-> name]

\* the except clause of audio.py and the step to the next item
TkItemFailed(ev, name, what) ==
    /\ events' = Append(ev, Posted("error", index, name))
    /\ outcomes' = Append(outcomes, what)
    /\ index' = index + 1
    /\ pc' = LoopTo(index + 1)
    /\ tk_input_path' = NoPath
    /\ temp_download_path' = NoPath
    /\ record' = NextRecord(index + 1)
    /\ UNCHANGED << success_count, last_output_path >>

\* one item, from record.get("type") to the input_path.exists() test
tk_resolve(dl, ext, exists) ==
    /\ TkFrame
    /\ last_call' = NoCall
    /\ pc = "prepare"
    /\ IF record.type = "file"
       THEN LET name == DisplayName(record) IN
            /\ dl = "ok"
            /\ UNCHANGED << download_cache, fs_files, fs_dirs, released >>
            /\ IF exists
               THEN /\ tk_input_path' = record.path
                    /\ temp_download_path' = NoPath
                    /\ pc' = "transcode"
                    /\ UNCHANGED << index, success_count, last_output_path,
                                    events, outcomes, record >>
               ELSE TkItemFailed(events, name,
                        Outcome(index, "input_missing", record.path, << >>))
       ELSE LET name == record.value
                ev == Append(events, Posted("downloading", index, name))
                d == Download(download_cache, fs_files, fs_dirs, record.value,
                              output_dir, dl, ext)
            IN IF d.raised
               THEN /\ exists
                    /\ download_cache' = d.cache
                    /\ fs_files' = d.files
                    /\ fs_dirs' = d.dirs
                    /\ UNCHANGED released
                    /\ TkItemFailed(ev, name,
                           Outcome(index, "download_failed", NoPath, << >>))
               ELSE IF exists
               THEN /\ download_cache' = d.cache
                    /\ fs_files' = d.files
                    /\ fs_dirs' = d.dirs
                    /\ released' = Without(released, d.file)
                    /\ tk_input_path' = d.file
                    /\ temp_download_path' = d.file
                    /\ events' = ev
                    /\ pc' = "transcode"
                    /\ UNCHANGED << index, success_count, last_output_path,
                                    outcomes, record >>
               ELSE /\ LET c == Cleanup(d.cache, d.files \ {d.file}, d.dirs,
                                        d.file)
                       IN /\ download_cache' = c.cache
                          /\ fs_files' = c.files
                          /\ fs_dirs' = c.dirs
                          /\ released' = CountRelease(Without(released, d.file),
                                             d.file, c.dirs # d.dirs)
                    /\ TkItemFailed(ev, name,
                           Outcome(index, "input_missing", d.file, << >>))
    /\ UNCHANGED << ctlVars, worker, start_button, dialog, notice, total_files, errors,
                    output_dir, output_file, result, run_edits >>

\* a choice of out_path that takes the parent of the input for links too
OutPathOfParent(out_dir, is_url, input_path) ==
    IF out_dir # NoFolder THEN out_dir ELSE input_path.segs

\* out_path: output_dir if set, else input_path.parent for a file and
\* Path.cwd() for a link
OutPath(out_dir, is_url, input_path) ==
    IF out_dir # NoFolder THEN out_dir
    ELSE IF ~is_url THEN input_path.segs
    ELSE Cwd

\* one item, from the choice of out_path to the finally clause
tk_transcode(mkdir_ok, run) ==
    /\ TkFrame
    /\ last_call' = NoCall
    /\ pc = "transcode"
    /\ LET is_url == record.type = "url"
           display_name == DisplayName(record)
           out_path == OutPath(output_dir, is_url, tk_input_path)
           out == JoinStemExt(out_path, tk_input_path.stem, output_format)
           cmd == FfmpegCmd(tk_input_path, output_format, out)
           ev == Append(events, Posted("processing", index, display_name))
       IN IF ~mkdir_ok
          THEN /\ run = "exit1"
               /\ FinallyCleanup(download_cache, fs_files, fs_dirs,
                                 temp_download_path)
               /\ TkItemFailed(events, display_name,
                      Outcome(index, "mkdir_failed", tk_input_path, << >>))
          ELSE IF ReturncodeOk(run)
          THEN /\ out # tk_input_path
               /\ success_count' = success_count + 1
               /\ last_output_path' = out
               /\ FinallyCleanup(download_cache, fs_files \cup {out},
                                 fs_dirs \cup {out_path}, temp_download_path)
               /\ events' = ev
               /\ outcomes' = Append(outcomes,
                                  Outcome(index, run, tk_input_path, cmd))
               /\ index' = index + 1
               /\ pc' = LoopTo(index + 1)
               /\ tk_input_path' = NoPath
               /\ temp_download_path' = NoPath
               /\ record' = NextRecord(index + 1)
          ELSE /\ FinallyCleanup(download_cache, fs_files,
                                 fs_dirs \cup {out_path}, temp_download_path)
               /\ TkItemFailed(ev, display_name,
                      Outcome(index, run, tk_input_path, cmd))
    /\ UNCHANGED << ctlVars, worker, start_button, dialog, notice, total_files, errors,
                    output_dir, output_file, result, run_edits >>

\* root.after(0, self.extraction_complete, success_count, total_files, ...)
tk_finish ==
    /\ TkFrame
    /\ last_call' = NoCall
    /\ pc = "return"
    /\ events' = Append(events, [kind |-> "completed"])
    /\ result' = [kind |-> "complete", success_count |-> success_count,
                  total_files |-> total_files,
                  last_output_path |-> last_output_path]
    /\ pc' = "returned"
    /\ UNCHANGED << ctlVars, worker, start_button, dialog, notice, index, total_files,
                    success_count, last_output_path, errors, output_dir,
                    output_file, outcomes, tkVars >>

\* SpeedTakeGUI.extraction_complete, on the UI thread; the files and directories
\* of the finished batch are no longer followed
tk_extraction_complete ==
    /\ TkFrame
    /\ last_call' = NoCall
    /\ pc = "returned"
    /\ worker' = "none"
    /\ start_button' = TRUE
    /\ notice' = TkCompletion(success_count, total_files, last_output_path)
    /\ dialog' = notice'.title
    /\ RunOver
    /\ download_cache' = << >>
    /\ fs_files' = {}
    /\ fs_dirs' = {}
    /\ released' = << >>
    /\ run_edits' = 0
    /\ UNCHANGED << ctlVars, tk_input_path, temp_download_path, record >>

\* a repeated call of _cleanup_downloaded_file for a download of this batch
cleanup_again(path) ==
    /\ TkFrame
    /\ last_call' = NoCall
    /\ path \in DOMAIN released
    /\ released[path].calls < MaxCleanupCalls
    /\ LET c == Cleanup(download_cache, fs_files, fs_dirs, path) IN
       /\ download_cache' = c.cache
       /\ fs_files' = c.files
       /\ fs_dirs' = c.dirs
       /\ released' = CountRelease(released, path,
                                   c.files # fs_files \/ c.dirs # fs_dirs)
    /\ UNCHANGED << ctlVars, worker, start_button, dialog, notice, runVars,
                    tk_input_path, temp_download_path, record, run_edits >>

\* ------------------------------------------------------------------ specification
\* the folders offered next to batch runs: their videos are paths that
\* add_files is offered too
RunFolders == { <<>>, <<"d">>, <<"gone">> }

QtNext ==
    \/ \E files \in FileLists(PathStrs) : add_files(files)
    \/ \E folder \in RunFolders : add_folder(folder)
    \/ clear_files
    \/ \E folder \in FolderTexts : set_output_folder(folder)
    \/ \E fmt \in FormatInputs : set_output_format(fmt)
    \/ \E c \in ColocatedStates, p \in SearchPathStates :
           start_extraction(c, p)
    \/ call_extract_audio_files
    \/ extract_enter
    \/ \E mkdir_ok \in BOOLEAN, st \in BOOLEAN, cb \in BOOLEAN :
           extract_prepare(mkdir_ok, st, cb)
    \/ \E run \in RunOutcomes, cb1 \in BOOLEAN, cb2 \in BOOLEAN :
           extract_transcode(run, cb1, cb2)
    \/ extract_return
    \/ on_extraction_complete
    \/ on_worker_finished
    \/ caller_resumes

\* the format radio button of audio.py that is followed
TkFormats == {"mp3"}

\* the file dialog of audio.py offers two spellings of one file
TkPathStrs == { p \in PathStrs : p.ext = "mp4" }

TkNext ==
    \/ \E files \in FileLists(TkPathStrs) : tk_add_files(files)
    \/ \E folder \in RunFolders : tk_add_folder(folder)
    \/ \E url \in Urls : tk_add_youtube_link(url)
    \/ tk_clear_files
    \/ \E folder \in FolderTexts : tk_set_output_folder(folder)
    \/ \E fmt \in TkFormats : tk_set_output_format(fmt)
    \/ \E c \in ColocatedStates, p \in SearchPathStates :
           tk_start_extraction(c, p)
    \/ tk_extract_enter
    \/ \E dl \in DownloadOutcomes, ext \in DownloadExts, exists \in BOOLEAN :
           tk_resolve(dl, ext, exists)
    \/ \E mkdir_ok \in BOOLEAN, run \in RunOutcomes :
           tk_transcode(mkdir_ok, run)
    \/ tk_finish
    \/ tk_extraction_complete

Next == QtNext \/ TkNext

Spec == Init /\ [][Next]_vars

\* the controller with the Qt window or a direct caller
InitQt == Init /\ app = "qt"

SpecQt == InitQt /\ [][QtNext]_vars

\* the selection calls of the controller alone, on every folder
SelectPathStrs ==
    PathStrs \cup { [segs |-> <<"m">>, stem |-> "a", ext |-> "MP4"] }

SelectNext ==
    \/ \E files \in FileLists(SelectPathStrs) : add_files(files)
    \/ \E folder \in Folders : add_folder(folder)
    \/ clear_files

SpecSelect == InitQt /\ [][SelectNext]_vars

\* the controller on two files, with every format a caller can hand over
AllFormatInputs == DOMAIN AUDIO_CODECS \cup {"ogg"}

FormatFiles == { p \in PathStrs : p.segs \in { <<"d">>, <<"e">> } }

FormatNext ==
    \/ \E files \in FileLists(FormatFiles) : add_files(files)
    \/ \E fmt \in AllFormatInputs : set_output_format(fmt)
    \/ \E c \in ColocatedStates, p \in SearchPathStates :
           start_extraction(c, p)
    \/ extract_enter
    \/ \E mkdir_ok \in BOOLEAN, st \in BOOLEAN, cb \in BOOLEAN :
           extract_prepare(mkdir_ok, st, cb)
    \/ \E run \in RunOutcomes \cup VanishedOutcomes, cb1 \in BOOLEAN,
          cb2 \in BOOLEAN :
           extract_transcode(run, cb1, cb2)
    \/ extract_return
    \/ on_extraction_complete
    \/ on_worker_finished

SpecFormat == InitQt /\ [][FormatNext]_vars

\* the controller called by the window's worker or by a direct caller, on a
\* queue of up to two files
CallNext ==
    \/ \E files \in FileLists(FormatFiles) : add_files(files)
    \/ clear_files
    \/ \E folder \in FolderTexts : set_output_folder(folder)
    \/ \E c \in ColocatedStates, p \in SearchPathStates :
           start_extraction(c, p)
    \/ call_extract_audio_files
    \/ extract_enter
    \/ \E mkdir_ok \in BOOLEAN, st \in BOOLEAN, cb \in BOOLEAN :
           extract_prepare(mkdir_ok, st, cb)
    \/ \E run \in RunOutcomes, cb1 \in BOOLEAN, cb2 \in BOOLEAN :
           extract_transcode(run, cb1, cb2)
    \/ extract_return
    \/ on_extraction_complete
    \/ on_worker_finished
    \/ caller_resumes

SpecCall == InitQt /\ [][CallNext]_vars

\* the Tk application
InitTk == Init /\ app = "tk"

SpecTk == InitTk /\ [][TkNext]_vars

\* the selection handlers of the Tk application alone, on every folder and
\* every link text
TkSelectNext ==
    \/ \E files \in FileLists(TkPathStrs) : tk_add_files(files)
    \/ \E folder \in Folders : tk_add_folder(folder)
    \/ \E url \in UrlInputs : tk_add_youtube_link(url)
    \/ tk_clear_files

SpecTkSelect == InitTk /\ [][TkSelectNext]_vars

\* both applications with one file or link to add, and the steps of a batch
\* taken whenever they can be: the worker thread is scheduled, each call of
\* the downloader and of the transcoder returns, and the event loop delivers
\* the queued signals and callbacks
LiveFiles == { p \in PathStrs : p.segs = <<"d">> /\ p.ext = "mp4" }

QtWorkerStep ==
    \/ extract_enter
    \/ \E mkdir_ok \in BOOLEAN, st \in BOOLEAN, cb \in BOOLEAN :
           extract_prepare(mkdir_ok, st, cb)
    \/ \E run \in RunOutcomes, cb1 \in BOOLEAN, cb2 \in BOOLEAN :
           extract_transcode(run, cb1, cb2)
    \/ extract_return

TkWorkerStep ==
    \/ tk_extract_enter
    \/ \E dl \in DownloadOutcomes, ext \in DownloadExts, exists \in BOOLEAN :
           tk_resolve(dl, ext, exists)
    \/ \E mkdir_ok \in BOOLEAN, run \in RunOutcomes :
           tk_transcode(mkdir_ok, run)
    \/ tk_finish

LiveNext ==
    \/ \E files \in FileLists(LiveFiles) : add_files(files)
    \/ \E c \in ColocatedStates, p \in SearchPathStates :
           start_extraction(c, p)
    \/ QtWorkerStep
    \/ on_extraction_complete
    \/ on_worker_finished
    \/ \E files \in FileLists(LiveFiles) : tk_add_files(files)
    \/ \E url \in Urls : tk_add_youtube_link(url)
    \/ \E c \in ColocatedStates, p \in SearchPathStates :
           tk_start_extraction(c, p)
    \/ TkWorkerStep
    \/ tk_extraction_complete

SpecLive ==
    /\ Init
    /\ [][LiveNext]_vars
    /\ WF_vars(QtWorkerStep)
    /\ WF_vars(on_extraction_complete)
    /\ WF_vars(on_worker_finished)
    /\ WF_vars(TkWorkerStep)
    /\ WF_vars(tk_extraction_complete)

\* the Tk application with downloads that arrive in the selected format, and
\* with a local file named like a download
AudioDownloadExts == DownloadExts \cup {"mp3"}

NamedLikeDownload == { [segs |-> <<"d">>, stem |-> "title.a", ext |-> "mp4"] }

TkDestNext ==
    \/ \E files \in FileLists(NamedLikeDownload) : tk_add_files(files)
    \/ \E url \in Urls : tk_add_youtube_link(url)
    \/ \E folder \in FolderTexts : tk_set_output_folder(folder)
    \/ \E c \in ColocatedStates, p \in SearchPathStates :
           tk_start_extraction(c, p)
    \/ tk_extract_enter
    \/ \E dl \in DownloadOutcomes, ext \in AudioDownloadExts, exists \in BOOLEAN :
           tk_resolve(dl, ext, exists)
    \/ \E mkdir_ok \in BOOLEAN, run \in RunOutcomes :
           tk_transcode(mkdir_ok, run)
    \/ tk_finish
    \/ tk_extraction_complete

SpecTkDest == InitTk /\ [][TkDestNext]_vars

\* the Tk application with repeated cleanup calls on the ledger
NextLedger ==
    \/ TkNext
    \/ \E path \in DOMAIN released : cleanup_again(path)

SpecLedger == InitTk /\ [][NextLedger]_vars

\* ================================================================== properties
\* a controller call that got past the pre-flight checks has ended
BatchEnded ==
    /\ app = "qt"
    /\ pc \in {"returned", "raised"}
    /\ total_files > 0
    /\ result # Raised("RuntimeError")

\* the items whose ffmpeg run exited with code 0
Succeeded(outs) == { i \in 1..Len(outs) : outs[i].kind = "exit0" }

\* C1: once a batch is past its pre-flight checks, no failure of an item aborts
\* it: the call ends by returning one ExtractionResult, and every item of the
\* queue was attempted, in queue order
C1_ItemFailureNeverAborts ==
    BatchEnded =>
        /\ pc = "returned"
        /\ result.kind = "result"
        /\ Len(outcomes) = Len(selected_files)
        /\ \A i \in 1..Len(outcomes) :
               /\ outcomes[i].index = i
               /\ outcomes[i].input = Path(selected_files[i])

\* C2: the returned ExtractionResult has total_files equal to the queue
\* length, success_count equal to the number of items whose ffmpeg run exited
\* with code 0, and last_output_path equal to the output path of the last such
\* item in queue order (None when there is none)
C2_ResultCounts ==
    (app = "qt" /\ pc = "returned") =>
        /\ result.kind = "result"
        /\ result.total_files = Len(selected_files)
        /\ result.success_count = Cardinality(Succeeded(outcomes))
        /\ result.last_output_path =
               IF Succeeded(outcomes) = {} THEN NoPath
               ELSE LET last == CHOOSE i \in Succeeded(outcomes) :
                                    \A j \in Succeeded(outcomes) : j <= i
                    IN CmdOutput(outcomes[last].cmd)

\* a batch of two items returned: the first succeeded, the second exited nonzero
C2_Witness ==
    /\ app = "qt"
    /\ pc = "returned"
    /\ Len(outcomes) = 2
    /\ outcomes[1].kind = "exit0"
    /\ outcomes[2].kind = "exit1"
    /\ result.last_output_path = CmdOutput(outcomes[1].cmd)

\* C3: the errors of a returned ExtractionResult hold exactly one entry per
\* item that did not succeed, naming that item, in queue order, and none for
\* an item that succeeded, so success_count + len(errors) = total_files
C3_OneErrorPerFailedItem ==
    (app = "qt" /\ pc = "returned") =>
        LET failed == SelectSeq(outcomes, LAMBDA o : o.kind # "exit0")
        IN /\ result.success_count + Len(result.errors) = result.total_files
           /\ Len(result.errors) = Len(failed)
           /\ \A k \in 1..Len(failed) :
                  k <= Len(result.errors) =>
                      result.errors[k].file = selected_files[failed[k].index]

\* a file that download_youtube_audio delivered
IsDownload(path) == path.ext \in DownloadExts

\* the audio.py batch is between two items, or past the last one
BetweenItems == app = "tk" /\ pc \in {"prepare", "return", "returned"}

EventsOf(kind, i) ==
    { e \in 1..Len(events) :
        /\ events[e].kind = kind
        /\ events[e].index = i }

\* an item whose download failed: no success, no ffmpeg run, one error, no
\* scratch directory left behind
FailedDownloadsAccounted ==
    app = "tk" =>
        /\ success_count = Cardinality(Succeeded(outcomes))
        /\ \A k \in 1..Len(outcomes) :
               outcomes[k].kind = "download_failed" =>
                   /\ outcomes[k].cmd = << >>
                   /\ EventsOf("processing", outcomes[k].index) = {}
                   /\ Cardinality(EventsOf("error", outcomes[k].index)) = 1
        /\ (Len(outcomes) > 0 /\ pc # "transcode"
                /\ outcomes[Len(outcomes)].kind = "download_failed") =>
               fs_dirs \cap ScratchNames = {}

\* the destination the user supplied stays while the batch runs
DestinationKept ==
    (app = "tk" /\ pc' # "idle" /\ output_dir # NoFolder
        /\ output_dir \in fs_dirs) => output_dir \in fs_dirs'

C7_NoDuplicatePaths ==
    app = "qt" =>
        /\ \A i, j \in 1..Len(selected_files) :
               i # j => Path(selected_files[i]) # Path(selected_files[j])
        /\ Len(returned) <= Len(selected_files)
        /\ \A k \in 1..Len(returned) :
               returned[k] =
                   selected_files[Len(selected_files) - Len(returned) + k]

\* the call on an empty queue that returns the empty ExtractionResult
EmptyResult == result = ExtractionResult(0, 0, NoPath, << >>)

\* C8, as stated: a batch started on an empty queue produces no
\* ExtractionResult
C8_NoResultFromEmptyQueue ==
    ~(result.kind = "result" /\ result.total_files = 0)

\* C8, amended: the start handler of either window answers an empty queue with
\* the "No Files Selected" warning and starts nothing; the Qt worker never runs
\* on an empty queue and no item is ever processed out of one; a direct call
\* of extract_audio_files on an empty queue does not fail, it returns
\* ExtractionResult(0, 0, None, []) with no item processed and no notification
C8_EmptyQueueStartsNothing ==
    /\ dialog = "No Files Selected" =>
           /\ selected_files = << >>
           /\ pc = "idle"
           /\ worker = "none"
           /\ result = NoResult
    /\ (app = "qt" /\ worker = "running") => selected_files # << >>
    /\ (app = "qt" /\ pc \in {"prepare", "transcode", "return"}) =>
           total_files > 0
    /\ (result.kind = "result" /\ result.total_files = 0) =>
           /\ EmptyResult
           /\ selected_files = << >>
           /\ worker = "none"
           /\ events = << >>
           /\ outcomes = << >>

\* extract_audio_files was called on an empty queue and has returned
C8_Witness ==
    /\ pc = "returned"
    /\ selected_files = << >>
    /\ EmptyResult

\* nothing of a batch has happened
NothingProcessed ==
    /\ events = << >>
    /\ outcomes = << >>
    /\ success_count = 0

\* no batch without ffmpeg: the refusals leave no trace of a batch, and every
\* batch that runs, and every command it ran, has an ffmpeg path
NoBatchWithoutFfmpeg ==
    /\ result = Raised("RuntimeError") =>
           /\ pc = "raised"
           /\ NothingProcessed
           /\ selected_files # << >>
           /\ ffmpeg_path = None
    /\ dialog = "FFmpeg Not Found" =>
           /\ pc = "idle"
           /\ worker = "none"
           /\ NothingProcessed
           /\ selected_files # << >>
           /\ ffmpeg_path = None
    /\ pc \in {"prepare", "transcode"} => ffmpeg_path # None
    /\ \A k \in 1..Len(outcomes) :
           outcomes[k].cmd # << >> => outcomes[k].cmd[1] # None

\* the step that refuses to start leaves the queue and the configuration alone
RefusalChangesNothing ==
    ((pc = "start" /\ pc' = "raised")
        \/ (dialog' = "FFmpeg Not Found" /\ start_button'))
       => /\ UNCHANGED << selected_files, output_format, output_folder,
                          ffmpeg_path, worker >>
          /\ NothingProcessed'

\* C9: started on a non-empty queue with no ffmpeg located, the batch is
\* refused before it starts (RuntimeError from the controller, the "FFmpeg Not
\* Found" warning from a window): no item is processed, no notification is
\* emitted, ffmpeg is never run, and the queue, the output format, the output
\* folder and the ffmpeg path are unchanged
C9_NoFfmpegNoBatch == []NoBatchWithoutFfmpeg /\ [][RefusalChangesNothing]_vars

\* extract_audio_files raised RuntimeError on a queue of two files
C9_Witness ==
    /\ result = Raised("RuntimeError")
    /\ Len(selected_files) = 2
    /\ ffmpeg_path = None

\* the indices of the notifications of one kind, in the order of their emission
Indices(kind) ==
    LET sel == SelectSeq(events, LAMBDA e : e.kind = kind)
    IN [k \in 1..Len(sel) |-> sel[k].index]

\* C10: the status and progress notifications of a finished Qt batch carry the
\* indices 1, 2, ..., n in this order, none skipped, and the completion
\* notification is the last one
C10_NotificationsInQueueOrder ==
    (app = "qt" /\ worker = "running" /\ pc = "returned") =>
        /\ Indices("status") = [k \in 1..total_files |-> k]
        /\ Indices("progress") = [k \in 1..total_files |-> k]
        /\ events[Len(events)].kind = "completed"

\* C11: while a batch worker runs, no step of either front end changes the
\* queue
C11_QueueFixedWhileRunning ==
    [][(worker = "running" /\ worker' = "running") =>
           selected_files' = selected_files]_vars

\* a batch starts from rest only: no worker is live and no call is under way
StartsFromRest ==
    pc' = "start" =>
        \/ pc = "idle" /\ worker = "none"
        \/ pc = "start" /\ worker' = worker

\* each step ends at most one download or ffmpeg invocation, that of the
\* item the loop stands at
OneInvocationAtATime ==
    \/ outcomes' = outcomes
    \/ outcomes' = << >>
    \/ /\ Len(outcomes') = Len(outcomes) + 1
       /\ outcomes'[Len(outcomes')].index = index
       /\ index' = index + 1 \/ pc' = "raised"

\* C12: the start control is off as long as a worker runs, a worker is started
\* only when none is live, and the items of the batch are handled one after
\* the other
C12_OneBatchAtATime ==
    /\ [](worker = "running" => ~start_button)
    /\ [][StartsFromRest /\ OneInvocationAtATime]_vars

\* a worker runs and stands at its second item; the start control is off
C12_Witness ==
    /\ worker = "running"
    /\ pc = "transcode"
    /\ ~start_button
    /\ dialog = "none"
    /\ index = 2

\* C13: the controller's output format is always one of mp3, wav, flac, aac,
\* and a set_output_format call that ends in the configuration error leaves
\* the format as it was
C13_FormatAlwaysSupported ==
    /\ [](output_format \in {"mp3", "wav", "flac", "aac"})
    /\ [][dialog' = "Unsupported Format" => output_format' = output_format]_vars

\* "ogg" was refused after flac had been selected
C13_Witness ==
    /\ app = "qt"
    /\ dialog = "Unsupported Format"
    /\ output_format = "flac"

\* the files below a folder whose extension is in the allow-list, in scan order
AllowListedFiles(folder) ==
    LET IsVideoFile(e) == e.is_file /\ Lower(e.path.ext) \in VIDEO_EXTENSIONS
        found == SelectSeq(FsTree(DirPath(folder)), IsVideoFile)
    IN [i \in 1..Len(found) |-> found[i].path]

\* the paths of a list that are not queued in sel: equality is that of the
\* normalized paths
NotQueued(paths, sel) ==
    LET Fresh(p) == \A i \in 1..Len(sel) : Path(sel[i]) # Path(p)
    IN SelectSeq(paths, Fresh)

\* C14: add_folder on an existing folder reports the number of its files with
\* an allow-listed extension and appends exactly those of them that are not
\* queued yet, in order, and nothing else
C14_FolderAddsExactlyItsVideos ==
    (/\ app = "qt"
     /\ last_call.op = "add_folder"
     /\ last_call.folder # <<>>
     /\ DirPath(last_call.folder) \in FsDirs)
    => /\ last_call.total = Len(AllowListedFiles(last_call.folder))
       /\ selected_files =
              last_call.before
                  \o NotQueued(AllowListedFiles(last_call.folder), last_call.before)

\* C15: add_folder on a folder that does not exist raises FileNotFoundError
\* and leaves the queue as it was
C15_MissingFolderRaises ==
    (/\ app = "qt"
     /\ last_call.op = "add_folder"
     /\ last_call.folder # <<>>
     /\ DirPath(last_call.folder) \notin FsDirs)
    => /\ last_call.raised = "FileNotFoundError"
       /\ dialog = "Folder Not Found"
       /\ selected_files = last_call.before
       /\ returned = <<>>

\* the missing folder was asked for while a file was queued
C15_Witness ==
    /\ last_call.op = "add_folder"
    /\ last_call.folder = <<"gone">>
    /\ last_call.raised = "FileNotFoundError"
    /\ Len(selected_files) = 1

\* the scheme is http or https and the host holds a marker of a video host
SchemeAndHostRecognized(url) ==
    /\ url.scheme \in {"http", "https"}
    /\ \/ Contains(url.host, <<"youtube", "com">>)
       \/ Contains(url.host, <<"youtu", "be">>)

\* C16: add_youtube_link accepts a URL exactly if its scheme is http or https
\* and its host holds a recognized marker; a refused URL gets the "Invalid URL"
\* error and leaves the queue as it was
C16_UrlAcceptedIffRecognizedHost ==
    last_call.op = "add_youtube_link"
    => /\ dialog = "Invalid URL" <=> ~SchemeAndHostRecognized(last_call.url)
       /\ dialog = "Invalid URL" => selected_files = last_call.before

\* C17: add_youtube_link with an accepted URL that the queue already holds
\* shows "Duplicate Link" and leaves the queue as it was; with an accepted URL
\* the queue does not hold it appends one url record at the end; and the queue
\* of audio.py never holds two equal records
C17_NoEqualRecords ==
    /\ (last_call.op = "add_youtube_link" /\ dialog # "Invalid URL")
       => IF \E k \in 1..Len(last_call.before) :
                 last_call.before[k] = [type |-> "url", value |-> last_call.url]
          THEN dialog = "Duplicate Link" /\ selected_files = last_call.before
          ELSE /\ dialog = "none"
               /\ selected_files =
                      Append(last_call.before, [type |-> "url", value |-> last_call.url])
    /\ app = "tk"
       => \A i, j \in 1..Len(selected_files) :
              i # j => selected_files[i] # selected_files[j]

\* a link was typed a second time while a file and the link were queued
C17_Witness ==
    /\ last_call.op = "add_youtube_link"
    /\ dialog = "Duplicate Link"
    /\ Len(selected_files) = 2
    /\ selected_files[1].type = "file"
    /\ selected_files[2].type = "url"

CodecOf(f) ==
    CASE f = "mp3" -> "libmp3lame"
      [] f = "wav" -> "pcm_s16le"
      [] f = "flac" -> "flac"
      [] f = "aac" -> "aac"

\* the format has not changed since the output of the current item was named
FormatSteady == app = "qt" => output_file.ext = output_format

\* C19: every ffmpeg command of a batch, under a format f that stays selected
\* while the item is processed, is ffmpeg -i <input> -vn -y -acodec <codec of f>
\* <output>, with libmp3lame for mp3, pcm_s16le for wav, flac for flac and aac
\* for aac, and the output is named <stem of the input>.<f>
C19_CommandPerFormat ==
    [][(/\ Len(outcomes') = Len(outcomes) + 1
        /\ outcomes'[Len(outcomes')].cmd # << >>
        /\ FormatSteady)
       => LET o == outcomes'[Len(outcomes')] IN
          /\ Len(o.cmd) = 8
          /\ SubSeq(o.cmd, 1, 7) =
                 << ffmpeg_path, "-i", o.input, "-vn", "-y", "-acodec",
                    CodecOf(output_format) >>
          /\ o.cmd[8].stem = o.input.stem
          /\ o.cmd[8].ext = output_format]_vars

\* in one batch ffmpeg was run with -acodec flac on an output named x.flac
\* and with -acodec pcm_s16le on an output named x.wav
C19_Witness ==
    /\ \E k \in 1..Len(outcomes) :
           /\ outcomes[k].cmd # << >>
           /\ outcomes[k].cmd[7] = "flac"
           /\ outcomes[k].cmd[8].ext = "flac"
           /\ outcomes[k].cmd[8].stem = "x"
    /\ \E k \in 1..Len(outcomes) :
           /\ outcomes[k].cmd # << >>
           /\ outcomes[k].cmd[7] = "pcm_s16le"
           /\ outcomes[k].cmd[8].ext = "wav"

\* the items for which ffmpeg was invoked
Invoked == { k \in 1..Len(outcomes) : outcomes[k].cmd # << >> }

\* C20 as stated: the directory of every ffmpeg output is the user's
\* destination directory if one is set, and otherwise the parent directory of
\* the resolved input
C20_DestinationIsParentOfInput ==
    \A k \in Invoked :
        CmdOutput(outcomes[k].cmd).segs =
            IF output_dir # NoFolder THEN output_dir
            ELSE Path(outcomes[k].input).segs

\* C20: the directory of every ffmpeg output is the user's destination
\* directory if one is set; otherwise the parent directory of the input for a
\* local file, and the working directory for a download, whose resolved input
\* lies in a scratch directory; ffmpeg is not invoked for an item whose
\* directory could not be created, and the directory exists once it was
C20_DestinationDirectory ==
    /\ \A k \in Invoked :
           /\ CmdOutput(outcomes[k].cmd).segs =
                  IF output_dir # NoFolder THEN output_dir
                  ELSE IF outcomes[k].input.segs \in ScratchNames THEN << "cwd" >>
                  ELSE Path(outcomes[k].input).segs
           /\ app = "tk" => CmdOutput(outcomes[k].cmd).segs \in fs_dirs
    /\ \A k \in 1..Len(outcomes) :
           outcomes[k].kind = "mkdir_failed" => outcomes[k].cmd = << >>

\* with no destination set, a download was transcoded into the working
\* directory and a local file into its own directory
C20_Witness ==
    /\ output_dir = NoFolder
    /\ \E k \in Invoked :
           /\ outcomes[k].input.segs \in ScratchNames
           /\ CmdOutput(outcomes[k].cmd).segs = << "cwd" >>
           /\ << "cwd" >> \in fs_dirs
    /\ \E k \in Invoked :
           CmdOutput(outcomes[k].cmd).segs = << "d" >>

\* C21: a completion notice carries exactly the classification its counts
\* determine: "Extraction Complete" iff success_count = total_files > 0,
\* "Partial Success" iff 0 < success_count < total_files, "Extraction Failed"
\* iff success_count = 0; the failure is an error box and the other two are
\* information boxes; the output file is offered only when total_files = 1;
\* the notice of the Qt window carries the counts of its batch, and no result
\* delivered to the Qt window is that of an empty batch, which gets no notice
C21_OneClassificationPerBatch ==
    /\ notice # NoNotice
       => /\ notice.title \in {"Extraction Complete", "Partial Success",
                               "Extraction Failed"}
          /\ notice.title = "Extraction Complete"
                 <=> (notice.success_count = notice.total_files
                      /\ notice.total_files > 0)
          /\ notice.title = "Partial Success"
                 <=> (0 < notice.success_count
                      /\ notice.success_count < notice.total_files)
          /\ notice.title = "Extraction Failed" <=> notice.success_count = 0
          /\ notice.icon = IF notice.title = "Extraction Failed"
                           THEN "critical" ELSE "information"
          /\ notice.play_file # NoPath => notice.total_files = 1
          /\ dialog = notice.title
    /\ (pc = "delivered" /\ notice # NoNotice)
       => /\ notice.success_count = success_count
          /\ notice.total_files = total_files
    /\ (app = "qt" /\ worker = "running" /\ pc = "returned")
       => result.total_files > 0

\* a start_extraction call probed in the environment the call before it
\* probed in
ProbeRepeated ==
    /\ last_call.op = "start_extraction" /\ last_call.probed
    /\ last_call'.op = "start_extraction" /\ last_call'.probed
    /\ last_call'.env = last_call.env

\* C22: start_extraction runs check_ffmpeg only when no path is cached; a
\* cached path is never changed by any step; and a probe repeated in the
\* environment of the probe before it leaves the same path cached
C22_ProbedOnceAndCached ==
    /\ [](last_call.op = "start_extraction"
            => /\ last_call.probed => last_call.before = None
               /\ ~last_call.probed => ffmpeg_path = last_call.before)
    /\ [][ffmpeg_path # None => ffmpeg_path' = ffmpeg_path]_vars
    /\ [][ProbeRepeated => ffmpeg_path' = ffmpeg_path]_vars

\* a batch was started without a probe, on the path an earlier start cached
C22_Witness ==
    /\ last_call.op = "start_extraction"
    /\ ~last_call.probed
    /\ last_call.before = "exe_dir/ffmpeg.exe"
    /\ worker = "running"

\* the binary the probe order of the claim selects: the co-located one if it
\* answers, else the one on the search path if that answers, else none
FirstAnswering(colocated, onpath) ==
    IF colocated = "works" THEN "exe_dir/ffmpeg.exe"
    ELSE IF onpath = "works" THEN "ffmpeg"
    ELSE None

\* C23: after a probe the cached path is that of the co-located binary if it
\* exists and answers -version; otherwise that of the search-path binary if
\* that answers; and absent only when neither answers
C23_ColocatedThenSearchPath ==
    (last_call.op = "start_extraction" /\ last_call.probed)
    => ffmpeg_path = FirstAnswering(last_call.env[1], last_call.env[2])

\* C24: the worker thread of a running batch never reads or writes a variable
\* or widget owned by the UI itself
C24_WorkerNeverTouchesUiState == WorkerThreadReads = {}

\* the attempted items whose local input file was gone when its turn came
InputGone ==
    { k \in 1..Len(outcomes) : outcomes[k].kind \in {"input_missing", "no_input"} }

\* C25: for an item whose local file no longer exists the transcoder is not
\* invoked, an error is recorded for the item, and the batch goes on to the
\* next item
C25_VanishedFileNotTranscoded ==
    \A k \in InputGone :
        /\ outcomes[k].cmd = << >>
        /\ IF app = "qt"
           THEN \E e \in 1..Len(errors) : errors[e].file = selected_files[outcomes[k].index]
           ELSE \E e \in 1..Len(events) :
                    events[e].kind = "error" /\ events[e].index = outcomes[k].index
        /\ pc # "raised"

\* the "processing i/total: name" notifications emitted for item i
ProcessingNotices(i) ==
    { e \in 1..Len(events) :
          events[e].kind \in {"status", "processing"} /\ events[e].index = i }

\* C26: for every item a batch has attempted, whether it succeeded or failed,
\* exactly one "processing i/total: name" notification was emitted
C26_OneProcessingNoticePerItem ==
    \A k \in 1..Len(outcomes) :
        Cardinality(ProcessingNotices(outcomes[k].index)) = 1

\* C27: the output file of every item that succeeded exists after the item's
\* cleanup and until the batch has ended
\* (a batch in which an input vanished from the disk on its own is left out)
NothingVanished ==
    \A k \in 1..Len(outcomes) : outcomes[k].kind # "input_missing"

C27_CleanupKeepsOutputs ==
    (app = "tk" /\ NothingVanished)
    => \A k \in 1..Len(outcomes) :
           outcomes[k].kind = "exit0" => CmdOutput(outcomes[k].cmd) \in fs_files

\* C28: a batch that is running eventually is complete, with the start control
\* and the add and clear controls enabled again, also when the worker ended by
\* raising
C28_BatchRunsToCompletion ==
    (worker = "running")
        ~> (worker = "none" /\ pc = "idle" /\ start_button /\ add_buttons)

\* a running Qt batch whose worker ended by raising, with the controls still
\* disabled
C28_Witness ==
    /\ app = "qt"
    /\ worker = "running"
    /\ pc = "raised"
    /\ ~start_button
    /\ ~add_buttons
    /\ outcomes # << >>

\* C29: a returned ExtractionResult has 0 <= success_count <= total_files and
\* no last_output_path exactly if success_count = 0; while the controller runs
\* a batch, success_count never decreases and the error list only grows
ControllerInLoop ==
    /\ app = "qt"
    /\ pc \in {"prepare", "transcode", "return"}

IsPrefix(s, t) ==
    /\ Len(s) <= Len(t)
    /\ \A k \in 1..Len(s) : t[k] = s[k]

C29_ResultCounts ==
    /\ [](  (app = "qt" /\ result.kind = "result")
            => /\ 0 <= result.success_count
               /\ result.success_count <= result.total_files
               /\ (result.last_output_path = NoPath
                      <=> result.success_count = 0))
    /\ [][ ControllerInLoop
           => /\ success_count' >= success_count
              /\ IsPrefix(errors, errors') ]_vars

\* a batch returned a result with a success and a failure
C29_Witness ==
    /\ app = "qt"
    /\ result.kind = "result"
    /\ result.success_count = 1
    /\ result.total_files = 2
    /\ Len(result.errors) = 1
    /\ result.last_output_path # NoPath

\* C30: all items of one batch are transcoded with the same output format and
\* destination setting: the format and codec of every command of the batch
\* equal those of the batch's first command, and with an output folder set
\* every output lies in that folder
CmdFormat(cmd) ==
    << CmdOutput(cmd).ext, SubSeq(cmd, 6, Len(cmd) - 1) >>

C30_OneFormatAndDestination ==
    \A j \in 1..Len(outcomes) : \A k \in 1..Len(outcomes) :
        (outcomes[j].cmd # << >> /\ outcomes[k].cmd # << >>)
        => /\ CmdFormat(outcomes[j].cmd) = CmdFormat(outcomes[k].cmd)
           /\ (output_dir # NoFolder
                  => CmdOutput(outcomes[k].cmd).segs = output_dir)

\* C31: a step of the controller's batch run leaves the queue, the output
\* format, the output folder and the cached transcoder path as they were,
\* whatever the run's outcome; the items a run has processed are the entries
\* of the queue in the queue's order, so that a second run on the same queue
\* processes the same items in the same order
BatchRunStep ==
    /\ app = "qt"
    /\ pc # "idle"
    /\ pc' # pc \/ index' # index

C31_RunLeavesSessionAlone ==
    /\ [][ BatchRunStep
           => /\ selected_files' = selected_files
              /\ output_format' = output_format
              /\ output_folder' = output_folder
              /\ ffmpeg_path' = ffmpeg_path ]_vars
    /\ [](app = "qt"
          => \A k \in 1..Len(outcomes) :
                 /\ k <= Len(selected_files)
                 /\ outcomes[k].index = k
                 /\ outcomes[k].input = Path(selected_files[k]))

\* a run on two files has returned with one success and one failure, and the
\* queue still holds both files
C31_Witness ==
    /\ app = "qt"
    /\ pc = "returned"
    /\ result.kind = "result"
    /\ result.success_count = 1
    /\ result.total_files = 2
    /\ Len(selected_files) = 2
    /\ Len(outcomes) = 2
    /\ outcomes[2].input = Path(selected_files[2])

\* a direct call was refused before the loop: no transcoder is configured
C31_RefusedAtPreflight ==
    /\ app = "qt"
    /\ pc = "raised"
    /\ result = Raised("RuntimeError")
    /\ selected_files # << >>
    /\ ffmpeg_path = None

====
